---- MODULE Spec2Model ----
(***************************************************************************)
(* WhatsApp webhook relay: the handshake (GET /webhook), the delivery      *)
(* pipeline (POST /webhook: classify, generate, send) and the lifecycle of *)
(* the two outbound clients.  The repository holds two implementations of  *)
(* the same routes: main.py (clients on app.state) and routes/webhook.py   *)
(* with local_agents/openai_agent.py and utils/whatsapp_utils.py.          *)
(***************************************************************************)
EXTENDS Integers, Sequences, FiniteSets, TLC

VARIABLES
    impl,            \* which implementation serves: "main" or "routes"
    OPENAI_API_KEY,  \* os.getenv("OPENAI_API_KEY")
    VERIFY_TOKEN,    \* os.getenv("VERIFY_TOKEN")
    phase,           \* "boot", "serving", "stopped", "failed"
    httpx_made,      \* httpx.AsyncClient instances created so far
    httpx_open,      \* httpx.AsyncClient instances created and not closed
    openai_made,     \* OpenAI / AsyncOpenAI instances created so far
    openai_open,     \* OpenAI / AsyncOpenAI instances created and not closed
    received,        \* number of POST deliveries received so far
    task,            \* task[t]: the request handled by task t
    hs               \* the handshake request and its response

vars == <<impl, OPENAI_API_KEY, VERIFY_TOKEN, phase, httpx_made, httpx_open,
          openai_made, openai_open, received, task, hs>>

config_vars == <<impl, OPENAI_API_KEY, VERIFY_TOKEN>>
client_vars == <<httpx_made, httpx_open, openai_made, openai_open>>

----------------------------------------------------------------------------
(* Bounds *)

\* deliveries received over the lifetime of the process
MaxRequests == 3

\* the tasks that can be in flight at the same time
Tasks == {"t1", "t2"}

----------------------------------------------------------------------------
(* Python values *)

\* Python's None (an absent query parameter, an unset environment variable,
\* a completion without content)
None == "<None>"

\* bool(s) for an Optional[str]
Truthy(s) == s # None /\ s # ""

\* key in dict
Has(d, k) == k \in DOMAIN d

Impls == {"main", "routes"}

----------------------------------------------------------------------------
(* The handshake: GET /webhook *)

\* Response(content=..., status_code=...): a content of None renders as an
\* empty body
Response(content, status_code) ==
    [status |-> status_code, body |-> IF content = None THEN "" ELSE content]

\* "or" for "and" in the comparison of line 132
main_verify_webhook_or(mode, token, challenge) ==
    IF Truthy(mode) /\ Truthy(token)
    THEN IF mode = "subscribe" \/ token = VERIFY_TOKEN
         THEN Response(challenge, 200)
         ELSE Response(None, 403)
    ELSE Response(None, 400)

\* the presence test of line 131 made on the token alone
main_verify_webhook_token_only(mode, token, challenge) ==
    IF Truthy(token)
    THEN IF mode = "subscribe" /\ token = VERIFY_TOKEN
         THEN Response(challenge, 200)
         ELSE Response(None, 403)
    ELSE Response(None, 400)

\* the presence test of line 131 as "is not None"
main_verify_webhook_not_none(mode, token, challenge) ==
    IF mode # None /\ token # None
    THEN IF mode = "subscribe" /\ token = VERIFY_TOKEN
         THEN Response(challenge, 200)
         ELSE Response(None, 403)
    ELSE Response(None, 400)

\* main.py, verify_webhook
main_verify_webhook(mode, token, challenge) ==
    IF Truthy(mode) /\ Truthy(token)
    THEN IF mode = "subscribe" /\ token = VERIFY_TOKEN
         THEN Response(challenge, 200)
         ELSE Response(None, 403)
    ELSE Response(None, 400)

\* routes/webhook.py, verify_webhook
routes_verify_webhook(mode, token, challenge) ==
    IF Truthy(mode) /\ Truthy(token)
    THEN IF mode = "subscribe" /\ token = VERIFY_TOKEN
         THEN Response(challenge, 200)
         ELSE Response(None, 403)
    ELSE Response(None, 400)

\* the query parameters tried: absent, empty, and values
Modes == {None, "", "subscribe", "unsubscribe"}
QueryTokens == {None, "", "s3cret", "wrong"}
Challenges == {None, "", "1158201444"}
\* the configured secret: unset, set to the empty string, set
VerifyTokens == {None, "", "s3cret"}

NoResponse == [status |-> 0, body |-> ""]

NoHandshake == [mode |-> None, token |-> None, challenge |-> None,
                handled |-> FALSE, resp |-> NoResponse]

\* one GET /webhook request, handled to its response
GetWebhook(mode, token, challenge) ==
    /\ phase = "serving"
    /\ hs' = [mode |-> mode, token |-> token, challenge |-> challenge,
              handled |-> TRUE,
              resp |-> IF impl = "main"
                       THEN main_verify_webhook(mode, token, challenge)
                       ELSE routes_verify_webhook(mode, token, challenge)]
    /\ UNCHANGED <<config_vars, phase, client_vars, received, task>>

----------------------------------------------------------------------------
(* The delivery payload: dicts are records, lists are sequences *)

WHATSAPP == "whatsapp_business_account"

TextMessage(from, body) ==
    [type |-> "text", from |-> from, text |-> [body |-> body]]

StatusUpdate == [id |-> "wamid.1", status |-> "delivered"]

\* {"object": object, "entry": [{"changes": [{"value": value}]}]}
Envelope(object, value) ==
    [object |-> object, entry |-> <<[id |-> "0", changes |-> <<[field |-> "messages", value |-> value]>>]>>]

Meta == "15550000000"

\* bodies that stop before or at the value object
EnvelopeBodies ==
    { [entry |-> <<>>],                                         \* no object
      [object |-> "page", entry |-> <<>>],                      \* another object
      Envelope("page", [metadata |-> Meta, messages |-> <<TextMessage("A", "hi")>>]),
      [object |-> WHATSAPP],                                    \* no entry
      [object |-> WHATSAPP, entry |-> <<>>],                    \* empty entry
      [object |-> WHATSAPP, entry |-> <<[id |-> "0"]>>],        \* no changes
      [object |-> WHATSAPP, entry |-> <<[id |-> "0", changes |-> <<>>]>>],
      [object |-> WHATSAPP, entry |-> <<[id |-> "0", changes |-> <<[field |-> "messages"]>>]>>],
      Envelope(WHATSAPP, [metadata |-> Meta]) }                 \* neither key

\* bodies whose value holds statuses
StatusBodies ==
    { Envelope(WHATSAPP, [metadata |-> Meta, statuses |-> <<>>]),
      Envelope(WHATSAPP, [metadata |-> Meta, statuses |-> <<[timestamp |-> "0"]>>]),
      Envelope(WHATSAPP, [metadata |-> Meta, statuses |-> <<[id |-> "wamid.1"]>>]),
      Envelope(WHATSAPP, [metadata |-> Meta, statuses |-> <<StatusUpdate>>]),
      Envelope(WHATSAPP, [metadata |-> Meta, statuses |-> <<StatusUpdate>>,
                          messages |-> <<TextMessage("A", "hi")>>]),
      Envelope(WHATSAPP, [metadata |-> Meta, statuses |-> <<>>,
                          messages |-> <<[type |-> "image", from |-> "A"]>>]) }

\* bodies whose value holds messages and no statuses
MessageBodies ==
    { Envelope(WHATSAPP, [metadata |-> Meta, messages |-> <<>>]),
      Envelope(WHATSAPP, [metadata |-> Meta, messages |-> <<[id |-> "wamid.2"]>>]),
      Envelope(WHATSAPP, [metadata |-> Meta, messages |-> <<[type |-> "image", from |-> "A"]>>]),
      Envelope(WHATSAPP, [metadata |-> Meta, messages |-> <<[type |-> "text"]>>]),
      Envelope(WHATSAPP, [metadata |-> Meta, messages |-> <<[type |-> "text", from |-> "A"]>>]),
      Envelope(WHATSAPP, [metadata |-> Meta, messages |-> <<[type |-> "text", text |-> [body |-> "hi"]]>>]),
      Envelope(WHATSAPP, [metadata |-> Meta,
                          messages |-> <<[type |-> "text", from |-> "A", text |-> [preview_url |-> "no"]]>>]),
      Envelope(WHATSAPP, [metadata |-> Meta, messages |-> <<TextMessage("A", "hi")>>]),
      Envelope(WHATSAPP, [metadata |-> Meta, messages |-> <<TextMessage("B", "hi")>>]),
      Envelope(WHATSAPP, [metadata |-> Meta,
                          messages |-> <<TextMessage("A", "hi"), TextMessage("B", "yo")>>]),
      Envelope(WHATSAPP, [metadata |-> Meta,
                          messages |-> <<[type |-> "image", from |-> "A"], TextMessage("B", "yo")>>]) }

\* bodies with more than one entry or change
BatchBodies ==
    { [object |-> WHATSAPP,
       entry |-> <<[id |-> "0", changes |-> <<[field |-> "messages", value |-> [metadata |-> Meta]],
                                               [field |-> "messages",
                                                value |-> [metadata |-> Meta,
                                                           messages |-> <<TextMessage("B", "yo")>>]]>>]>>],
      [object |-> WHATSAPP,
       entry |-> <<[id |-> "0", changes |-> <<[field |-> "messages",
                                                value |-> [metadata |-> Meta, statuses |-> <<StatusUpdate>>]]>>],
                   [id |-> "1", changes |-> <<[field |-> "messages",
                                                value |-> [metadata |-> Meta,
                                                           messages |-> <<TextMessage("B", "yo")>>]]>>]>> ] }

Bodies == EnvelopeBodies \cup StatusBodies \cup MessageBodies \cup BatchBodies

----------------------------------------------------------------------------
(* handle_webhook up to its first outbound call: the classification *)

Respond(status_code) ==
    [kind |-> "respond", status |-> status_code, exc |-> "none",
     from_number |-> None, msg_body |-> None]

\* an exception no except clause of the handler catches: the framework
\* answers 500 Internal Server Error
Raise(exc) ==
    [kind |-> "raise", status |-> 500, exc |-> exc,
     from_number |-> None, msg_body |-> None]

\* the two lookups of lines 168-169 exchanged
Reply_swapped(from_number, msg_body) ==
    [kind |-> "reply", status |-> 0, exc |-> "none",
     from_number |-> msg_body, msg_body |-> from_number]

Reply(from_number, msg_body) ==
    [kind |-> "reply", status |-> 0, exc |-> "none",
     from_number |-> from_number, msg_body |-> msg_body]

\* body["object"] compared only when the key is there
main_wrong_object_if_present(body) ==
    Has(body, "object") /\ body.object # WHATSAPP

\* main.py line 150: body.get("object") != "whatsapp_business_account"
main_wrong_object(body) ==
    (IF Has(body, "object") THEN body.object ELSE None) # WHATSAPP

\* routes/webhook.py line 30
routes_wrong_object(body) ==
    (IF Has(body, "object") THEN body.object ELSE None) # WHATSAPP

\* the last message of the delivery looked at (messages[-1]) instead of the
\* first
main_classify_last(body) ==
    IF main_wrong_object(body)
    THEN Respond(404)
    ELSE IF ~(/\ Has(body, "entry")
              /\ Len(body.entry) >= 1
              /\ Has(body.entry[1], "changes")
              /\ Len(body.entry[1].changes) >= 1
              /\ Has(body.entry[1].changes[1], "value"))
    THEN Respond(200)
    ELSE LET value == body.entry[1].changes[1].value IN
         IF Has(value, "statuses")
         THEN IF Len(value.statuses) = 0 THEN Raise("IndexError")
              ELSE LET status_data == value.statuses[1] IN
                   IF ~Has(status_data, "id") \/ ~Has(status_data, "status")
                   THEN Raise("KeyError")
                   ELSE Respond(200)
         ELSE IF Has(value, "messages")
         THEN IF Len(value.messages) = 0 THEN Raise("IndexError")
              ELSE LET message_entry == value.messages[Len(value.messages)] IN
                   IF (IF Has(message_entry, "type") THEN message_entry.type ELSE None) = "text"
                   THEN IF ~Has(message_entry, "from") THEN Raise("KeyError")
                        ELSE IF ~Has(message_entry, "text") THEN Raise("KeyError")
                        ELSE IF ~Has(message_entry.text, "body") THEN Raise("KeyError")
                        ELSE Reply(message_entry.from, message_entry.text.body)
                   ELSE Respond(200)
         ELSE Respond(200)

\* main.py, handle_webhook, lines 150-177
main_classify(body) ==
    IF main_wrong_object(body)
    THEN Respond(404)
    ELSE IF ~(/\ Has(body, "entry")
              /\ Len(body.entry) >= 1
              /\ Has(body.entry[1], "changes")
              /\ Len(body.entry[1].changes) >= 1
              /\ Has(body.entry[1].changes[1], "value"))
    THEN Respond(200)                   \* except (KeyError, IndexError)
    ELSE LET value == body.entry[1].changes[1].value IN
         IF Has(value, "statuses")
         THEN IF Len(value.statuses) = 0 THEN Raise("IndexError")
              ELSE LET status_data == value.statuses[1] IN
                   IF ~Has(status_data, "id") \/ ~Has(status_data, "status")
                   THEN Raise("KeyError")
                   ELSE Respond(200)
         ELSE IF Has(value, "messages")
         THEN IF Len(value.messages) = 0 THEN Raise("IndexError")
              ELSE LET message_entry == value.messages[1] IN
                   IF (IF Has(message_entry, "type") THEN message_entry.type ELSE None) = "text"
                   THEN IF ~Has(message_entry, "from") THEN Raise("KeyError")
                        ELSE IF ~Has(message_entry, "text") THEN Raise("KeyError")
                        ELSE IF ~Has(message_entry.text, "body") THEN Raise("KeyError")
                        ELSE Reply(message_entry.from, message_entry.text.body)
                   ELSE Respond(200)
         ELSE Respond(200)

\* routes/webhook.py, handle_webhook, lines 30-47
routes_classify(body) ==
    IF routes_wrong_object(body)
    THEN Respond(404)
    ELSE IF ~(/\ Has(body, "entry")
              /\ Len(body.entry) >= 1
              /\ Has(body.entry[1], "changes")
              /\ Len(body.entry[1].changes) >= 1
              /\ Has(body.entry[1].changes[1], "value"))
    THEN Respond(200)
    ELSE LET value == body.entry[1].changes[1].value IN
         IF Has(value, "statuses")
         THEN IF Len(value.statuses) = 0 THEN Raise("IndexError")
              ELSE LET status_data == value.statuses[1] IN
                   IF ~Has(status_data, "id") \/ ~Has(status_data, "status")
                   THEN Raise("KeyError")
                   ELSE Respond(200)
         ELSE IF Has(value, "messages")
         THEN IF Len(value.messages) = 0 THEN Raise("IndexError")
              ELSE LET message_entry == value.messages[1] IN
                   IF (IF Has(message_entry, "type") THEN message_entry.type ELSE None) = "text"
                   THEN IF ~Has(message_entry, "from") THEN Raise("KeyError")
                        ELSE IF ~Has(message_entry, "text") THEN Raise("KeyError")
                        ELSE IF ~Has(message_entry.text, "body") THEN Raise("KeyError")
                        ELSE Reply(message_entry.from, message_entry.text.body)
                   ELSE Respond(200)
         ELSE Respond(200)

\* a delivery whose body another task is handling or has handled is
\* acknowledged without a reply
classify_dedup(body) ==
    IF \E u \in Tasks : task[u].pc \in {"generating", "sending", "done"} /\ task[u].body = body
    THEN Respond(200)
    ELSE IF impl = "main" THEN main_classify(body) ELSE routes_classify(body)

classify(body) ==
    IF impl = "main" THEN main_classify(body) ELSE routes_classify(body)

----------------------------------------------------------------------------
(* get_openai_response *)

\* what the completion provider's call can do: answer with a text, raise,
\* answer with no choices (IndexError on choices[0]), answer with a choice
\* whose content is None
ProviderOutcomes == {"ok", "raise", "malformed", "no_content"}

CompletionText == "Hello! How can I help?"

NoKeyReply == "Sorry, I can't connect to my brain right now."
ErrorReply == "I encountered an error. Please try again later."

\* the credentials tried: unset, set to the empty string, set
ApiKeys == {None, "", "sk-test"}

\* main.py, get_openai_response, lines 68-70: TRUE when it returns before
\* any call to the provider
main_no_key == ~Truthy(OPENAI_API_KEY)

\* local_agents/openai_agent.py, get_openai_response, lines 9-11
agent_no_key == ~Truthy(OPENAI_API_KEY)

\* an except clause that catches the provider's errors only: a response
\* without choices is answered with the text of the no-credential branch
main_openai_result_narrow(outcome) ==
    CASE outcome = "ok" -> CompletionText
      [] outcome = "no_content" -> None
      [] outcome = "malformed" -> NoKeyReply
      [] OTHER -> ErrorReply

\* main.py, get_openai_response, lines 72-87: the value returned for an
\* outcome of the provider's call
main_openai_result(outcome) ==
    CASE outcome = "ok" -> CompletionText
      [] outcome = "no_content" -> None
      [] OTHER -> ErrorReply             \* except Exception

\* local_agents/openai_agent.py, get_openai_response, lines 13-25
agent_openai_result(outcome) ==
    CASE outcome = "ok" -> CompletionText
      [] outcome = "no_content" -> None
      [] OTHER -> ErrorReply

no_key == IF impl = "main" THEN main_no_key ELSE agent_no_key

openai_result(outcome) ==
    IF impl = "main" THEN main_openai_result(outcome) ELSE agent_openai_result(outcome)

----------------------------------------------------------------------------
(* send_whatsapp_message *)

\* what the POST to the platform can do: a 2xx answer with a JSON body, an
\* answer that is not 2xx (raise_for_status raises HTTPStatusError), a
\* network-level error, a 2xx answer whose body is no JSON
PostOutcomes == {"2xx", "non2xx", "network_error", "bad_json"}

\* the except Exception clause left out: a network-level error leaves the
\* function
main_send_raises_uncaught(outcome) ==
    CASE outcome = "2xx" -> "none"
      [] outcome = "non2xx" -> "none"
      [] outcome = "network_error" -> "ConnectError"
      [] OTHER -> "JSONDecodeError"

\* main.py, send_whatsapp_message, lines 105-114: the exception that leaves
\* the function for an outcome of the POST ("none": it returns)
main_send_raises(outcome) ==
    CASE outcome = "2xx" -> "none"
      [] outcome = "non2xx" -> "none"          \* except httpx.HTTPStatusError
      [] OTHER -> "none"                       \* except Exception

\* the helper without its last clause "except Exception": a network error
\* or an answer that is no JSON leaves the function
utils_send_raises_no_catch_all(outcome) ==
    CASE outcome = "2xx" -> "none"
      [] outcome = "non2xx" -> "none"
      [] outcome = "network_error" -> "ConnectError"
      [] OTHER -> "JSONDecodeError"

\* utils/whatsapp_utils.py, send_whatsapp_message, lines 21-29
utils_send_raises(outcome) ==
    CASE outcome = "2xx" -> "none"
      [] outcome = "non2xx" -> "none"
      [] OTHER -> "none"

send_raises(outcome) ==
    IF impl = "main" THEN main_send_raises(outcome) ELSE utils_send_raises(outcome)

\* the payload's "to" and text.body
Payload(to_number, message) ==
    [messaging_product |-> "whatsapp", to |-> to_number, type |-> "text",
     text |-> [body |-> message]]

----------------------------------------------------------------------------
(* The process: clients, tasks *)

NoBody == [nothing |-> TRUE]

IdleTask ==
    [pc |-> "idle", seq |-> 0, body |-> NoBody, status |-> 0, exc |-> "none",
     from_number |-> None, msg_body |-> None, ai_response |-> None,
     calls |-> <<>>]

\* the positions of the calls named op in a task's log of calls
Where(calls, op) == {i \in DOMAIN calls : calls[i].op = op}
Count(calls, op) == Cardinality(Where(calls, op))
First(calls, op) == CHOOSE i \in Where(calls, op) : \A j \in Where(calls, op) : i <= j

\* routes: openai_agent.py calls the synchronous client inside the
\* coroutine, so nothing else runs on the event loop until it returns
LoopBlocked ==
    impl = "routes" /\ \E t \in Tasks : task[t].pc = "generating"

\* the client the provider call goes through is open
\* (main: app.state.openai_client; routes: the module-level openai_client)
OpenaiClientOpen == IF impl = "main" THEN openai_open > 0 ELSE TRUE

\* the client the POST goes through is open
\* (main: app.state.httpx_client; routes: the client made for this call)
HttpxClientOpen == IF impl = "main" THEN httpx_open > 0 ELSE TRUE

\* send_whatsapp_message(from_number, ai_response, ...) up to its await
BeginSend(rec, ai) ==
    [rec EXCEPT !.pc = "sending",
                !.ai_response = ai,
                !.calls = @ \o << [op |-> "send", to_number |-> rec.from_number, message |-> ai],
                                  [op |-> "post", payload |-> Payload(rec.from_number, ai),
                                   open |-> HttpxClientOpen] >>]

\* utils/whatsapp_utils.py line 22: a client is made for the call
\* main.py line 108: the client of app.state is used
SendMakesClient ==
    IF impl = "routes"
    THEN /\ httpx_made' = httpx_made + 1
         /\ httpx_open' = httpx_open + 1
         /\ UNCHANGED <<openai_made, openai_open>>
    ELSE UNCHANGED client_vars

\* the shared client used as a context manager too ("async with
\* httpx_client:"): the first send closes it
SendClosesClient_shared ==
    IF impl = "routes"
    THEN /\ httpx_open' = httpx_open - 1
         /\ UNCHANGED <<httpx_made, openai_made, openai_open>>
    ELSE /\ httpx_open' = 0
         /\ UNCHANGED <<httpx_made, openai_made, openai_open>>

\* utils/whatsapp_utils.py line 22: leaving "async with" closes the client
SendClosesClient ==
    IF impl = "routes"
    THEN /\ httpx_open' = httpx_open - 1
         /\ UNCHANGED <<httpx_made, openai_made, openai_open>>
    ELSE UNCHANGED client_vars

\* main.py, startup_event; routes: the server starts serving
Startup ==
    /\ phase = "boot"
    /\ IF impl = "main"
       THEN /\ httpx_made' = httpx_made + 1
            /\ httpx_open' = httpx_open + 1
            /\ IF OPENAI_API_KEY = None
               THEN \* AsyncOpenAI(api_key=None) raises: startup fails
                    /\ phase' = "failed"
                    /\ UNCHANGED <<openai_made, openai_open>>
               ELSE /\ phase' = "serving"
                    /\ openai_made' = openai_made + 1
                    /\ openai_open' = openai_open + 1
       ELSE /\ phase' = "serving"
            /\ UNCHANGED client_vars
    /\ UNCHANGED <<config_vars, received, task, hs>>

\* no handler is running: every task is idle or has responded
Quiescent == \A t \in Tasks : task[t].pc \in {"idle", "done"}

\* main.py, shutdown_event; routes: the server stops.  The server sends
\* lifespan.shutdown once it has stopped accepting connections and every
\* request in flight has been answered.
Shutdown ==
    /\ phase = "serving"
    /\ Quiescent
    /\ phase' = "stopped"
    /\ IF impl = "main"
       THEN /\ httpx_open' = 0
            /\ openai_open' = 0
            /\ UNCHANGED <<httpx_made, openai_made>>
       ELSE UNCHANGED client_vars
    /\ UNCHANGED <<config_vars, received, task, hs>>

\* a POST /webhook delivery arrives: handle_webhook starts, awaits the body
Receive(t, body) ==
    /\ phase = "serving"
    /\ ~LoopBlocked
    /\ received < MaxRequests
    /\ task[t].pc \in {"idle", "done"}
    /\ task' = [task EXCEPT ![t] = [IdleTask EXCEPT !.pc = "received", !.seq = received + 1,
                                                    !.body = body]]
    /\ received' = received + 1
    /\ UNCHANGED <<config_vars, phase, client_vars, hs>>

\* handle_webhook from the body to its first suspension or its response
HandleWebhook(t) ==
    /\ task[t].pc = "received"
    /\ ~LoopBlocked
    /\ LET d == classify(task[t].body)
           rec == [task[t] EXCEPT !.from_number = d.from_number, !.msg_body = d.msg_body]
           gen == [op |-> "generate", message |-> d.msg_body]
       IN IF d.kind # "reply"
          THEN /\ task' = [task EXCEPT ![t] = [@ EXCEPT !.pc = "done", !.status = d.status,
                                                        !.exc = d.exc]]
               /\ UNCHANGED client_vars
          ELSE IF no_key
          THEN /\ task' = [task EXCEPT ![t] =
                      BeginSend([rec EXCEPT !.calls = << gen,
                                     [op |-> "generate_return", outcome |-> "no_key",
                                      text |-> NoKeyReply] >>],
                                NoKeyReply)]
               /\ SendMakesClient
          ELSE /\ task' = [task EXCEPT ![t] =
                      [rec EXCEPT !.pc = "generating",
                                  !.calls = << gen,
                                     [op |-> "provider_call", message |-> d.msg_body,
                                      open |-> OpenaiClientOpen] >>]]
               /\ UNCHANGED client_vars
    /\ UNCHANGED <<config_vars, phase, received, hs>>

\* replies kept in the order of arrival: the provider's call of a delivery
\* returns only once every earlier delivery in flight has invoked its send
GenerateReturn_in_order(t, outcome) ==
    /\ task[t].pc = "generating"
    /\ \A u \in Tasks :
          (task[u].pc \in {"received", "generating", "sending"} /\ task[u].seq < task[t].seq) =>
              \E i \in DOMAIN task[u].calls : task[u].calls[i].op = "send"
    /\ task[t].calls[First(task[t].calls, "provider_call")].open \/ outcome = "raise"
    /\ LET ai == openai_result(outcome) IN
       task' = [task EXCEPT ![t] =
                   BeginSend([task[t] EXCEPT !.calls = @ \o
                                  << [op |-> "generate_return", outcome |-> outcome, text |-> ai] >>], ai)]
    /\ SendMakesClient
    /\ UNCHANGED <<config_vars, phase, received, hs>>

\* the provider's call ends: get_openai_response returns and
\* send_whatsapp_message runs up to its await
GenerateReturn(t, outcome) ==
    /\ task[t].pc = "generating"
    /\ task[t].calls[First(task[t].calls, "provider_call")].open \/ outcome = "raise"
    /\ LET ai == openai_result(outcome) IN
       task' = [task EXCEPT ![t] =
                   BeginSend([task[t] EXCEPT !.calls = @ \o
                                  << [op |-> "generate_return", outcome |-> outcome, text |-> ai] >>], ai)]
    /\ SendMakesClient
    /\ UNCHANGED <<config_vars, phase, received, hs>>

\* the POST ends: send_whatsapp_message returns and handle_webhook responds
SendReturn(t, outcome) ==
    /\ task[t].pc = "sending"
    /\ ~LoopBlocked
    /\ task[t].calls[First(task[t].calls, "post")].open \/ outcome = "network_error"
    /\ LET exc == send_raises(outcome) IN
       task' = [task EXCEPT ![t] =
                   [@ EXCEPT !.pc = "done",
                             !.status = IF exc = "none" THEN 200 ELSE 500,
                             !.exc = exc,
                             !.calls = @ \o << [op |-> "send_return", outcome |-> outcome] >>]]
    /\ SendClosesClient
    /\ UNCHANGED <<config_vars, phase, received, hs>>

InitProcess ==
    /\ impl \in Impls
    /\ httpx_made = 0
    /\ httpx_open = 0
    \* routes: importing openai_agent.py makes the client, and fails on a
    \* missing credential
    /\ openai_made = IF impl = "routes" /\ OPENAI_API_KEY # None THEN 1 ELSE 0
    /\ openai_open = openai_made
    /\ phase = IF impl = "routes" /\ OPENAI_API_KEY = None THEN "failed" ELSE "boot"
    /\ received = 0
    /\ task = [t \in Tasks |-> IdleTask]
    /\ hs = NoHandshake

\* the delivery pipeline and the clients' lifecycle
Init ==
    /\ OPENAI_API_KEY \in ApiKeys
    /\ VERIFY_TOKEN = "s3cret"
    /\ InitProcess

Next ==
    \/ Startup
    \/ Shutdown
    \/ \E t \in Tasks, body \in Bodies : Receive(t, body)
    \/ \E t \in Tasks : HandleWebhook(t)
    \/ \E t \in Tasks, outcome \in ProviderOutcomes : GenerateReturn(t, outcome)
    \/ \E t \in Tasks, outcome \in PostOutcomes : SendReturn(t, outcome)

Spec == Init /\ [][Next]_vars

\* the handshake, over every configured secret
InitVerify ==
    /\ OPENAI_API_KEY = "sk-test"
    /\ VERIFY_TOKEN \in VerifyTokens
    /\ InitProcess

NextVerify ==
    \/ Startup
    \/ \E mode \in Modes, token \in QueryTokens, challenge \in Challenges :
          GetWebhook(mode, token, challenge)

SpecVerify == InitVerify /\ [][NextVerify]_vars

----------------------------------------------------------------------------
(* What a delivery's body carries, read off the body alone *)

RightObject(body) == Has(body, "object") /\ body.object = WHATSAPP

\* body["entry"][0]["changes"][0]["value"] exists
HasValue(body) ==
    /\ Has(body, "entry")
    /\ Len(body.entry) >= 1
    /\ Has(body.entry[1], "changes")
    /\ Len(body.entry[1].changes) >= 1
    /\ Has(body.entry[1].changes[1], "value")

ValueOf(body) == body.entry[1].changes[1].value

WellFormedText(m) ==
    /\ Has(m, "type")
    /\ m.type = "text"
    /\ Has(m, "from")
    /\ Has(m, "text")
    /\ Has(m.text, "body")

\* the first entry/change value carries a well-formed text message
CarriesTextMessage(body) ==
    /\ RightObject(body)
    /\ HasValue(body)
    /\ Has(ValueOf(body), "messages")
    /\ Len(ValueOf(body).messages) >= 1
    /\ WellFormedText(ValueOf(body).messages[1])

HasStatuses(body) == HasValue(body) /\ Has(ValueOf(body), "statuses")
HasMessages(body) == HasValue(body) /\ Has(ValueOf(body), "messages")

Started(t) == task[t].pc \in {"generating", "sending", "done"}
Done(t) == task[t].pc = "done"
NoCalls(t) == task[t].calls = <<>>

\* one generate call, then one send call to the message's sender
RelayedOnce(t) ==
    LET calls == task[t].calls IN
    /\ Count(calls, "generate") = 1
    /\ Count(calls, "provider_call") <= 1
    /\ Count(calls, "send") <= 1
    /\ Count(calls, "post") = Count(calls, "send")
    /\ Count(calls, "send") = 1 =>
          /\ Count(calls, "generate_return") = 1
          /\ First(calls, "generate_return") < First(calls, "send")
          /\ calls[First(calls, "send")].to_number
                = ValueOf(task[t].body).messages[1].from
          /\ calls[First(calls, "post")].payload.to
                = ValueOf(task[t].body).messages[1].from
    /\ Done(t) => Count(calls, "send") = 1 /\ Count(calls, "send_return") = 1

----------------------------------------------------------------------------
(* C1 *)

\* C1 as stated: every delivery with the expected object whose first
\* entry/change value carries a well-formed text message is handled with
\* exactly one generate call and then exactly one send call, to the sender.
C1_AsStated ==
    \A t \in Tasks :
        Started(t) /\ CarriesTextMessage(task[t].body) => RelayedOnce(t)

\* C1, amended: the same, for the deliveries whose value holds no statuses
\* key (statuses are looked at first and end the handling).
C1_TextMessageRelayed ==
    \A t \in Tasks :
        (/\ Started(t)
         /\ CarriesTextMessage(task[t].body)
         /\ ~HasStatuses(task[t].body)) => RelayedOnce(t)

C1_Witness ==
    \E t \in Tasks :
        /\ Done(t)
        /\ CarriesTextMessage(task[t].body)
        /\ ~HasStatuses(task[t].body)
        /\ Count(task[t].calls, "provider_call") = 1
        /\ Count(task[t].calls, "send_return") = 1
        /\ task[t].calls[First(task[t].calls, "send")].to_number = "B"

----------------------------------------------------------------------------
(* C2 *)

GenerateFailures == {"no_key", "raise", "malformed"}

\* the generate call of task t has returned after a failure
GenerateFailed(t) ==
    /\ Count(task[t].calls, "generate_return") = 1
    /\ task[t].calls[First(task[t].calls, "generate_return")].outcome \in GenerateFailures

GenerateOutcome(t) == task[t].calls[First(task[t].calls, "generate_return")].outcome

SentMessage(t) == task[t].calls[First(task[t].calls, "send")].message

\* the fallback string of the except clause
FallbackString == ErrorReply

\* C2 as stated: after any failure of the generate call (the provider's call
\* raises, the response is malformed, the credential is missing) the send
\* call is still made exactly once and its body is the one fallback string.
C2_AsStated ==
    \A t \in Tasks :
        GenerateFailed(t) =>
            /\ Count(task[t].calls, "send") = 1
            /\ SentMessage(t) = FallbackString
            /\ task[t].exc = "none"

\* C2, amended: after any failure of the generate call the send call is
\* still made exactly once and nothing is raised; its body is one of two
\* fixed strings: the no-credential text when the credential is missing or
\* empty, the error text when the provider's call or the reading of its
\* response raises.
C2_FallbackSent ==
    \A t \in Tasks :
        GenerateFailed(t) =>
            /\ Count(task[t].calls, "send") = 1
            /\ Count(task[t].calls, "post") = 1
            /\ SentMessage(t) = (IF GenerateOutcome(t) = "no_key"
                                 THEN "Sorry, I can't connect to my brain right now."
                                 ELSE "I encountered an error. Please try again later.")
            /\ task[t].calls[First(task[t].calls, "post")].payload.text.body = SentMessage(t)
            /\ (GenerateOutcome(t) = "no_key") = ~Truthy(OPENAI_API_KEY)
            /\ task[t].exc = "none"
            /\ Done(t) => task[t].status = 200

C2_Witness ==
    \E t \in Tasks :
        /\ Done(t)
        /\ GenerateFailed(t)
        /\ GenerateOutcome(t) = "malformed"
        /\ SentMessage(t) = ErrorReply

----------------------------------------------------------------------------
(* C3 *)

SendOutcome(t) == task[t].calls[First(task[t].calls, "send_return")].outcome

\* C3: when the POST to the platform fails (an answer that is not 2xx, a
\* network-level error) send_whatsapp_message returns without raising, no
\* second attempt is made and the delivery is answered 200.
C3_SendFailureAcknowledged ==
    \A t \in Tasks :
        (/\ Done(t)
         /\ Count(task[t].calls, "send_return") >= 1
         /\ SendOutcome(t) \in {"non2xx", "network_error"}) =>
            /\ task[t].exc = "none"
            /\ task[t].status = 200
            /\ Count(task[t].calls, "send") = 1
            /\ Count(task[t].calls, "post") = 1
            /\ Count(task[t].calls, "send_return") = 1

C3_Witness ==
    \E t \in Tasks :
        /\ Done(t)
        /\ Count(task[t].calls, "send_return") = 1
        /\ SendOutcome(t) = "network_error"
        /\ task[t].status = 200

----------------------------------------------------------------------------
(* C4 *)

\* a key is missing or an index is out of range at a place the descent
\* reaches: entry, changes, value, the first element of statuses or of
\* messages, the status's id and status, the text message's from and
\* text.body
MalformedDescent(body) ==
    \/ ~HasValue(body)
    \/ /\ HasStatuses(body)
       /\ \/ Len(ValueOf(body).statuses) = 0
          \/ ~Has(ValueOf(body).statuses[1], "id")
          \/ ~Has(ValueOf(body).statuses[1], "status")
    \/ /\ ~HasStatuses(body)
       /\ HasMessages(body)
       /\ \/ Len(ValueOf(body).messages) = 0
          \/ /\ Has(ValueOf(body).messages[1], "type")
             /\ ValueOf(body).messages[1].type = "text"
             /\ ~WellFormedText(ValueOf(body).messages[1])

\* C4 as stated: a delivery with the expected object whose descent meets a
\* missing key or an out-of-range index is answered 200, with no generate
\* or send call and no error leaving the handler.
C4_AsStated ==
    \A t \in Tasks :
        (Done(t) /\ RightObject(task[t].body) /\ MalformedDescent(task[t].body)) =>
            /\ task[t].status = 200
            /\ NoCalls(t)
            /\ task[t].exc = "none"

----------------------------------------------------------------------------
(* C5 *)

\* C5 as stated: a delivery with the expected object whose value holds a
\* statuses entry and no messages entry is answered 200 and makes no
\* generate or send call, whatever the statuses collection holds.
C5_AsStated ==
    \A t \in Tasks :
        (/\ Done(t)
         /\ RightObject(task[t].body)
         /\ HasStatuses(task[t].body)
         /\ ~HasMessages(task[t].body)) =>
            /\ task[t].status = 200
            /\ NoCalls(t)

----------------------------------------------------------------------------
(* C6 *)

\* C6: a delivery whose object is absent or is not the expected one is
\* answered 404 and makes no generate or send call, whatever else the body
\* holds.
C6_WrongObjectRejected ==
    \A t \in Tasks :
        (task[t].pc # "idle" /\ ~RightObject(task[t].body)) =>
            /\ task[t].pc \in {"received", "done"}
            /\ NoCalls(t)
            /\ Done(t) => task[t].status = 404 /\ task[t].exc = "none"

C6_Witness ==
    \E t \in Tasks :
        /\ Done(t)
        /\ ~Has(task[t].body, "object")
        /\ task[t].status = 404
        /\ \E u \in Tasks :
              /\ Done(u)
              /\ Has(task[u].body, "object")
              /\ task[u].body.object = "page"
              /\ CarriesTextMessage([task[u].body EXCEPT !.object = WHATSAPP])
              /\ task[u].status = 404

----------------------------------------------------------------------------
(* C7, C8, C9: the handshake *)

\* the challenge comes back: status 200 and the body is the challenge
Echoed ==
    /\ hs.resp.status = 200
    /\ hs.challenge # None => hs.resp.body = hs.challenge

\* C7 as stated: the response is 200 with the challenge as body if and only
\* if hub.mode is "subscribe" and the hub.verify_token supplied equals
\* VERIFY_TOKEN; otherwise the status is not 200 and the challenge is not
\* echoed.
C7_AsStated ==
    hs.handled =>
        /\ Echoed <=> (hs.mode = "subscribe" /\ hs.token # None /\ hs.token = VERIFY_TOKEN)
        /\ ~Echoed => hs.resp.status # 200 /\ hs.resp.body = ""

\* C7, amended: the response is 200 with the challenge as body if and only
\* if hub.mode is "subscribe" and the hub.verify_token supplied is not empty
\* and equals VERIFY_TOKEN; otherwise the status is not 200 and the body is
\* empty.
C7_ChallengeEchoed ==
    hs.handled =>
        /\ Echoed <=> (/\ hs.mode = "subscribe"
                       /\ hs.token # None
                       /\ hs.token # ""
                       /\ hs.token = VERIFY_TOKEN)
        /\ ~Echoed => hs.resp.status # 200 /\ hs.resp.body = ""

C7_Witness ==
    /\ hs.handled
    /\ hs.mode = "subscribe"
    /\ hs.token = "s3cret"
    /\ VERIFY_TOKEN = "s3cret"
    /\ hs.challenge = "1158201444"
    /\ hs.resp = [status |-> 200, body |-> "1158201444"]

\* C8 as stated: a present hub.verify_token that differs from the secret is
\* answered 403, whatever hub.challenge and hub.mode are (hub.mode absent
\* or empty included).
C8_AsStated ==
    (hs.handled /\ hs.token # None /\ hs.token # VERIFY_TOKEN) =>
        hs.resp.status = 403

\* C8, amended: a hub.verify_token that is present, not empty and differs
\* from the secret is answered 403 whatever hub.challenge is, when hub.mode
\* is present and not empty; when hub.mode is absent or empty the answer is
\* 400.
C8_WrongTokenForbidden ==
    (hs.handled /\ hs.token # None /\ hs.token # "" /\ hs.token # VERIFY_TOKEN) =>
        /\ (hs.mode # None /\ hs.mode # "") => hs.resp.status = 403
        /\ (hs.mode = None \/ hs.mode = "") => hs.resp.status = 400
        /\ hs.resp.body = ""

C8_Witness ==
    /\ hs.handled
    /\ hs.token = "wrong"
    /\ VERIFY_TOKEN = "s3cret"
    /\ hs.mode = "subscribe"
    /\ hs.challenge = "1158201444"
    /\ hs.resp.status = 403

\* C9 as stated: a request without hub.mode or without hub.verify_token is
\* answered 400, and a request with both parameters present is never
\* answered 400.
C9_AsStated ==
    hs.handled =>
        /\ (hs.mode = None \/ hs.token = None) => hs.resp.status = 400
        /\ (hs.mode # None /\ hs.token # None) => hs.resp.status # 400

\* C9, amended: the answer is 400 exactly when hub.mode or hub.verify_token
\* is absent or empty.
C9_MissingParameterBadRequest ==
    hs.handled =>
        (hs.resp.status = 400 <=> (hs.mode \in {None, ""} \/ hs.token \in {None, ""}))

C9_Witness ==
    /\ hs.handled
    /\ hs.mode = ""
    /\ hs.token = "s3cret"
    /\ VERIFY_TOKEN = "s3cret"
    /\ hs.resp.status = 400

----------------------------------------------------------------------------
(* C10 *)

\* C10 as stated, in what it says of the clients made: no more than one
\* client is ever made or open for the completion provider and for the
\* messaging platform, and the handling of a delivery (any step of a task)
\* creates and closes none.
C10_AsStated ==
    [][/\ openai_made' <= 1 /\ openai_open' <= 1
       /\ httpx_made' <= 1 /\ httpx_open' <= 1
       /\ task' # task => client_vars' = client_vars]_vars

----------------------------------------------------------------------------
(* C11 *)

OutboundCalls(t) ==
    {i \in DOMAIN task[t].calls : task[t].calls[i].op \in {"provider_call", "post"}}

----------------------------------------------------------------------------
(* C12 *)

InFlight(t) == task[t].pc \in {"received", "generating", "sending"}

\* the provider's call or the POST of task t is outstanding
Waiting(t) == task[t].pc \in {"generating", "sending"}

\* the next step of the handler of task t
TaskStep(t) ==
    \/ HandleWebhook(t)
    \/ \E outcome \in ProviderOutcomes : GenerateReturn(t, outcome)
    \/ \E outcome \in PostOutcomes : SendReturn(t, outcome)

\* C12 as stated: whenever a request waits for the completion provider or
\* for the messaging platform, every other request in flight can take its
\* next step.
C12_AsStated ==
    \A t \in Tasks, u \in Tasks :
        (t # u /\ Waiting(t) /\ InFlight(u)) => ENABLED TaskStep(u)

----------------------------------------------------------------------------
(* C13 *)

\* C13 as stated, its final result: a delivery that has been answered has
\* status 200, or 404 when its object is not the expected one.
C13_AsStated ==
    \A t \in Tasks :
        Done(t) => task[t].status = (IF RightObject(task[t].body) THEN 200 ELSE 404)

----------------------------------------------------------------------------
(* C14 *)

\* the generate and send calls of a task, with their arguments
Cycle(t) == SelectSeq(task[t].calls, LAMBDA c : c.op \in {"generate", "send"})

\* what the outbound calls of a task did
Outcomes(t) ==
    SelectSeq(task[t].calls, LAMBDA c : c.op \in {"generate_return", "send_return"})

\* tasks t and u handled the same well-formed text-message body
SameTextDelivery(t, u) ==
    /\ t # u
    /\ Done(t)
    /\ Done(u)
    /\ task[t].body = task[u].body
    /\ CarriesTextMessage(task[t].body)
    /\ ~HasStatuses(task[t].body)

\* C14: the same well-formed text-message body delivered twice, one after
\* the other or at the same time, gets two generate calls and two send
\* calls, and the second handling is what it would be without the first:
\* with the same outcomes of the outbound calls the two handlings are equal.
C14_NoDeduplication ==
    \A t \in Tasks, u \in Tasks :
        SameTextDelivery(t, u) =>
            /\ Count(task[t].calls, "generate") + Count(task[u].calls, "generate") = 2
            /\ Count(task[t].calls, "send") + Count(task[u].calls, "send") = 2
            /\ task[t].status = 200 /\ task[u].status = 200
            /\ Cycle(t)[1] = Cycle(u)[1]
            /\ Outcomes(t) = Outcomes(u) => task[t].calls = task[u].calls

\* the two deliveries, the second received after the first, with the same
\* outcomes of their outbound calls
C14_Witness ==
    \E t \in Tasks, u \in Tasks :
        /\ SameTextDelivery(t, u)
        /\ task[t].seq < task[u].seq
        /\ Outcomes(t) = Outcomes(u)
        /\ Count(task[u].calls, "provider_call") = 1
        /\ task[u].calls[First(task[u].calls, "provider_call")].message = "hi"

----------------------------------------------------------------------------
(* C15 *)

\* C15 as stated: a value holding a statuses collection and a messages
\* collection is handled as a status update: answered 200, with no generate
\* or send call.
C15_AsStated ==
    \A t \in Tasks :
        (/\ Done(t)
         /\ RightObject(task[t].body)
         /\ HasStatuses(task[t].body)
         /\ HasMessages(task[t].body)) =>
            /\ task[t].status = 200
            /\ NoCalls(t)

----------------------------------------------------------------------------
(* C16 *)

\* C16: a delivery gets at most one generate call and at most one send
\* call, and they are for the first message of the first change of the
\* first entry; a text message in any later place gets no call.
C16_FirstMessageOnly ==
    \A t \in Tasks :
        LET calls == task[t].calls IN
        /\ Count(calls, "generate") <= 1
        /\ Count(calls, "provider_call") <= 1
        /\ Count(calls, "send") <= 1
        /\ Count(calls, "post") <= 1
        /\ calls # <<>> =>
              /\ CarriesTextMessage(task[t].body)
              /\ calls[First(calls, "generate")].message
                    = ValueOf(task[t].body).messages[1].text.body
        /\ Count(calls, "send") = 1 =>
              calls[First(calls, "send")].to_number = ValueOf(task[t].body).messages[1].from

\* a delivery of two text messages answered to the first sender only, and a
\* delivery whose only text message is in the second entry or change
C16_Witness ==
    \E t \in Tasks, u \in Tasks :
        /\ Done(t)
        /\ HasMessages(task[t].body)
        /\ Len(ValueOf(task[t].body).messages) = 2
        /\ WellFormedText(ValueOf(task[t].body).messages[2])
        /\ Count(task[t].calls, "send_return") = 1
        /\ SentMessage(t) = CompletionText
        /\ task[t].calls[First(task[t].calls, "send")].to_number = "A"
        /\ Done(u)
        /\ task[u].body \in BatchBodies
        /\ NoCalls(u)

----------------------------------------------------------------------------
(* C17 *)

\* the first message of the delivery has a type other than "text", or none
FirstMessageNotText(body) ==
    /\ HasMessages(body)
    /\ Len(ValueOf(body).messages) >= 1
    /\ ~(/\ Has(ValueOf(body).messages[1], "type")
         /\ ValueOf(body).messages[1].type = "text")

\* the delivery is no text message: a status update, or unrecognized
\* (a key missing on the way, neither collection, a first message that is
\* no well-formed text)
NotTextMessage(body) ==
    HasStatuses(body) \/ ~CarriesTextMessage(body)

\* C17 as stated: a delivery with the expected object whose first message
\* is no text, or that is a status update or unrecognized, is answered 200
\* straight after its classification, with no generate and no send call.
C17_AsStated ==
    \A t \in Tasks :
        (/\ task[t].pc # "idle"
         /\ RightObject(task[t].body)
         /\ FirstMessageNotText(task[t].body) \/ NotTextMessage(task[t].body)) =>
            /\ task[t].pc \in {"received", "done"}
            /\ NoCalls(t)
            /\ Done(t) => task[t].status = 200

----------------------------------------------------------------------------
(* C18 *)

\* the provider's credential is missing: unset or empty
CredentialMissing == ~Truthy(OPENAI_API_KEY)

\* C18 as stated: with the provider's credential missing the startup still
\* succeeds, every generate call returns the fallback string with no call
\* to the provider, the fallback is sent and the delivery is answered 200.
C18_AsStated ==
    CredentialMissing =>
        /\ phase # "failed"
        /\ \A t \in Tasks :
              task[t].calls # <<>> =>
                  /\ Count(task[t].calls, "provider_call") = 0
                  /\ GenerateOutcome(t) = "no_key"
                  /\ SentMessage(t) = NoKeyReply
                  /\ Done(t) => task[t].status = 200

----------------------------------------------------------------------------
(* C19 *)

\* delivery t arrived before delivery u, both are text messages, from
\* different conversations
ArrivedBefore(t, u) ==
    /\ t # u
    /\ task[t].pc # "idle"
    /\ task[u].pc # "idle"
    /\ task[t].seq < task[u].seq
    /\ CarriesTextMessage(task[t].body)
    /\ ~HasStatuses(task[t].body)
    /\ CarriesTextMessage(task[u].body)
    /\ ~HasStatuses(task[u].body)
    /\ ValueOf(task[t].body).messages[1].from # ValueOf(task[u].body).messages[1].from

\* C19: nothing orders the replies of concurrent deliveries: while an
\* earlier text delivery is in flight and has not invoked its send, a later
\* one that waits for the provider can go on to invoke its own send.
C19_NoOrderingGuarantee ==
    \A t \in Tasks, u \in Tasks :
        (/\ ArrivedBefore(t, u)
         /\ InFlight(t)
         /\ Count(task[t].calls, "send") = 0
         /\ task[u].pc = "generating") =>
            ENABLED (\E outcome \in ProviderOutcomes : GenerateReturn(u, outcome))

\* the reply to the later delivery is sent, the earlier one is still
\* waiting for the provider
C19_Witness ==
    \E t \in Tasks, u \in Tasks :
        /\ ArrivedBefore(t, u)
        /\ task[t].pc = "generating"
        /\ Count(task[t].calls, "send") = 0
        /\ Count(task[u].calls, "send") = 1
        /\ Count(task[u].calls, "generate_return") = 1
        /\ GenerateOutcome(u) = "ok"
        /\ task[u].calls[First(task[u].calls, "send")].to_number
              = ValueOf(task[u].body).messages[1].from

----------------------------------------------------------------------------
(* C20 *)

\* what a client of POST /webhook and the two outbound services observe of
\* one delivery: the response status and the generate/send calls in order
Observation(status_code, calls) == [status |-> status_code, calls |-> calls]

\* main.py, handle_webhook with get_openai_response and
\* send_whatsapp_message, as a function of the body and of the outcomes of
\* the provider's call and of the POST
main_handle_webhook(body, generated, posted) ==
    LET d == main_classify(body) IN
    IF d.kind # "reply"
    THEN Observation(d.status, <<>>)
    ELSE LET ai_response == IF main_no_key THEN NoKeyReply ELSE main_openai_result(generated)
         IN Observation(IF main_send_raises(posted) = "none" THEN 200 ELSE 500,
                        << [op |-> "generate", message |-> d.msg_body],
                           [op |-> "send", to_number |-> d.from_number, message |-> ai_response] >>)

\* routes/webhook.py, handle_webhook with the helpers of
\* local_agents/openai_agent.py and utils/whatsapp_utils.py
routes_handle_webhook(body, generated, posted) ==
    LET d == routes_classify(body) IN
    IF d.kind # "reply"
    THEN Observation(d.status, <<>>)
    ELSE LET ai_response == IF agent_no_key THEN NoKeyReply ELSE agent_openai_result(generated)
         IN Observation(IF utils_send_raises(posted) = "none" THEN 200 ELSE 500,
                        << [op |-> "generate", message |-> d.msg_body],
                           [op |-> "send", to_number |-> d.from_number, message |-> ai_response] >>)

\* one request at a time against either implementation, over every
\* credential and every configured secret
InitEquiv ==
    /\ OPENAI_API_KEY \in ApiKeys
    /\ VERIFY_TOKEN \in VerifyTokens
    /\ InitProcess

NextEquiv ==
    \/ Startup
    \/ \E body \in Bodies : Receive("t1", body)
    \/ HandleWebhook("t1")
    \/ \E outcome \in ProviderOutcomes : GenerateReturn("t1", outcome)
    \/ \E outcome \in PostOutcomes : SendReturn("t1", outcome)
    \/ \E mode \in Modes, token \in QueryTokens, challenge \in Challenges :
          GetWebhook(mode, token, challenge)

SpecEquiv == InitEquiv /\ [][NextEquiv]_vars

\* the outcomes (generated, posted) are those the task's calls had
OutcomesOf(t, generated, posted) ==
    /\ (Count(task[t].calls, "generate_return") = 1 /\ GenerateOutcome(t) # "no_key") =>
           generated = GenerateOutcome(t)
    /\ Count(task[t].calls, "send_return") = 1 => posted = SendOutcome(t)

\* C20: for every body and every outcome of the outbound calls the two
\* handle_webhook functions give the same response status and the same
\* generate/send calls with the same arguments, which are those of the
\* implementation serving, and the two verify_webhook functions give the
\* same status and body for every (mode, token, challenge).
C20_ImplementationsEquivalent ==
    /\ \A t \in Tasks :
          Done(t) =>
              \A generated \in ProviderOutcomes, posted \in PostOutcomes :
                  OutcomesOf(t, generated, posted) =>
                      /\ main_handle_webhook(task[t].body, generated, posted)
                            = routes_handle_webhook(task[t].body, generated, posted)
                      /\ Observation(task[t].status, Cycle(t))
                            = main_handle_webhook(task[t].body, generated, posted)
    /\ hs.handled =>
          /\ main_verify_webhook(hs.mode, hs.token, hs.challenge)
                = routes_verify_webhook(hs.mode, hs.token, hs.challenge)
          /\ hs.resp = main_verify_webhook(hs.mode, hs.token, hs.challenge)

\* the package under routes/ has answered a text message whose POST came
\* back with no JSON, and a handshake
C20_Witness ==
    /\ impl = "routes"
    /\ Done("t1")
    /\ CarriesTextMessage(task["t1"].body)
    /\ Count(task["t1"].calls, "send_return") = 1
    /\ SendOutcome("t1") = "bad_json"
    /\ GenerateOutcome("t1") = "no_content"
    /\ task["t1"].status = 200
    /\ hs.handled
    /\ hs.resp.status = 200

====
